---- MODULE Spec2Model ----
(***************************************************************************)
(* stringgy.py: binary-safe string search and in-place edit.               *)
(*                                                                         *)
(* Bytes are naturals 0..255, a bytes object is a sequence of bytes, a str *)
(* is a sequence of code points.  Offsets are 0-based as in the source;    *)
(* the element at offset i of a sequence s is s[i+1].                      *)
(***************************************************************************)
EXTENDS Integers, Sequences, FiniteSets, TLC

VARIABLES
    file,             \* content of the target file on disk
    term,             \* args.search
    include_utf16be,  \* args.utf16be
    ignore_case,      \* args.ignore_case
    hits,             \* the list of match records
    pc,               \* position of the running program
    rc,               \* one call of adjusted_write_bytes: arguments and result
    bc,               \* one call of bounds_utf8 / _bounds_utf16: arguments and result
    kind,             \* "batch" (replace_batch) or "interactive" (interactive_loop)
    new_str,          \* the replacement string of the running batch
    mode,             \* the mode of the running batch
    pad_char,         \* the pad character of the running batch
    indices,          \* sorted 1-based indices the running batch walks
    cur,              \* position in indices of the match write_one works on
    eff,              \* write_one: the reconciled bytes
    preview,          \* write_one: the bytes of the preview shown at the prompt
    view,             \* the mapped view of the file that is open
    baks,             \* the backup files that exist: name |-> content
    bak,              \* the name of the backup this session created
    outcomes,         \* the outcome of each write_one call of the running batch
    written,          \* replace_batch: written / interactive_loop: wrote
    sel,              \* interactive_loop: 0 for 'all', else the index typed
    cmds,             \* number of edit commands the interactive loop has run
    confirm,          \* write_one: the answer to "Write this change?"
    tampered          \* some other program wrote to the file

\* ---------------------------------------------------------------- bounds
MaxScanLen == 5
MaxTermLen == 2
MaxNewLen == 3
MaxFileLen == 3
MaxSessNewLen == 2
MaxSessTermLen == 2
MaxLimit == 2
MaxCmds == 2
MaxOldLen == 6
MaxPadLen == 2
MaxWideFileLen == 4
MaxWideTermLen == 1
MaxWideNewLen == 1
MaxBakNames == 3
MaxBakLen == 1

\* ------------------------------------------------------ input alphabets
\* NUL, a non-printable control byte, 'A' and 'a'
ByteVals == {0, 1, 65, 97}
\* 'A', 'a' and U+6161, whose two UTF-16 bytes are equal
TermChars == {65, 97, 24929}

\* ' ', U+00E9 (2 bytes in UTF-8) and U+1F600 (4 bytes in UTF-8 and UTF-16)
PadChars == {32, 233, 128512}
\* 'a', U+00E9 and U+1F600
NewChars == {97, 233, 128512}
Encodings == {"utf-8", "utf-16le", "utf-16be"}
Modes == {"exact", "padnul", "padspace", "truncate"}
\* the bytes of a session's file: NUL and 'a'
SessBytes == {0, 97}
\* the search terms of a session are made of 'a'
SessTermChars == {97}
\* what a session types or passes as replacement is made of 'A'
SessChars == {65}
\* the pad characters of a session: ' '
SessPadChars == {32}
\* a session over a wider alphabet: the file bytes NUL, 'A' and 'a', the
\* search terms 'a' and U+6161, the replacements 'A' and U+4141 (the two
\* UTF-16 bytes of U+6161 and of U+4141 are equal)
WideBytes == {0, 65, 97}
WideTermChars == {97, 24929}
WideChars == {65, 16705}
\* no backup made yet
NoBak == -1
\* rc before any call
NoCall == [enc |-> "utf-8", new_str |-> <<>>, old_len |-> 0, mode |-> "exact",
           pad_char |-> <<>>, out |-> <<>>]

\* bc before any call
NoBounds == [enc |-> "utf-8", start |-> 0, end |-> 0, out |-> <<0, 0>>]

\* the rejection of adjusted_write_bytes (no byte sequence holds -1)
None == <<-1>>
\* get_u16 returning None (no code unit is negative)
NoUnit == -1

\* --------------------------------------------------------------- helpers
Min(a, b) == IF a <= b THEN a ELSE b
Max(a, b) == IF a >= b THEN a ELSE b

\* all sequences over S of length lo..hi
SeqsOf(S, lo, hi) == UNION {[1..n -> S] : n \in lo..hi}

\* Python slice s[a:b] for non-negative a, b (clipped to the length)
Slice(s, a, b) == SubSeq(s, a + 1, Min(b, Len(s)))

RECURSIVE Concat(_)
Concat(ss) == IF ss = <<>> THEN <<>> ELSE Head(ss) \o Concat(Tail(ss))

\* bytes * n
Repeat(unit, n) == Concat([k \in 1..n |-> unit])

\* ---------------------------------------------------------- the codecs
\* str.encode('utf-8') of one code point (no surrogates in the alphabets)
Utf8Char(cp) ==
    IF cp < 128 THEN <<cp>>
    ELSE IF cp < 2048 THEN <<192 + (cp \div 64), 128 + (cp % 64)>>
    ELSE IF cp < 65536 THEN
        <<224 + (cp \div 4096), 128 + ((cp \div 64) % 64), 128 + (cp % 64)>>
    ELSE <<240 + (cp \div 262144), 128 + ((cp \div 4096) % 64),
           128 + ((cp \div 64) % 64), 128 + (cp % 64)>>

\* the 16-bit code units of one code point (a surrogate pair above the BMP)
Utf16Units(cp) ==
    IF cp < 65536 THEN <<cp>>
    ELSE <<55296 + ((cp - 65536) \div 1024), 56320 + ((cp - 65536) % 1024)>>

UnitBytes(u, be) == IF be THEN <<u \div 256, u % 256>> ELSE <<u % 256, u \div 256>>

Utf16Char(cp, be) ==
    Concat([k \in 1..Len(Utf16Units(cp)) |-> UnitBytes(Utf16Units(cp)[k], be)])

encode_by_enc(s, enc) ==
    IF enc = "utf-8" THEN Concat([k \in 1..Len(s) |-> Utf8Char(s[k])])
    ELSE IF enc = "utf-16le" THEN Concat([k \in 1..Len(s) |-> Utf16Char(s[k], FALSE)])
    ELSE Concat([k \in 1..Len(s) |-> Utf16Char(s[k], TRUE)])

\* bytes.lower(): ASCII 'A'..'Z' to 'a'..'z', byte by byte
LowerByte(b) == IF b >= 65 /\ b <= 90 THEN b + 32 ELSE b
Lower(bs) == [k \in 1..Len(bs) |-> LowerByte(bs[k])]

PRINTABLE_UTF8 == (32..126) \cup {9, 10, 13}
_is_printable_byte(b) == b \in PRINTABLE_UTF8

\* -------------------------------------------------------------- search
\* bytes.find(needle, i): lowest offset j >= i where needle occurs, or -1
RECURSIVE BytesFind(_, _, _)
BytesFind(hay, needle, i) ==
    IF i + Len(needle) > Len(hay) THEN -1
    ELSE IF Slice(hay, i, i + Len(needle)) = needle THEN i
    ELSE BytesFind(hay, needle, i + 1)

RECURSIVE find_all_from(_, _, _, _)
find_all_from(hay, needle, step, i) ==
    LET j == BytesFind(hay, needle, i)
    IN IF j < 0 THEN <<>>
       ELSE <<j>> \o find_all_from(hay, needle, step, j + step)

find_all(hay, needle, step) ==
    IF needle = <<>> THEN <<>> ELSE find_all_from(hay, needle, step, 0)

RECURSIVE find_ci_from(_, _, _, _)
find_ci_from(hay, needle, step, i) ==
    IF i <= Len(hay) - Len(needle)
    THEN (IF Lower(Slice(hay, i, i + Len(needle))) = Lower(needle)
          THEN <<i>> ELSE <<>>) \o find_ci_from(hay, needle, step, i + step)
    ELSE <<>>

find_ci(hay, needle, step) == find_ci_from(hay, needle, step, 0)

\* --------------------------------------------------- context expansion
RECURSIVE Left8(_, _, _)
Left8(mm, left, bad_run) ==
    IF left > 0
    THEN LET x == mm[left]       \* mm[left-1], 0-based
         IN IF x = 0 THEN left
            ELSE IF ~_is_printable_byte(x)
                 THEN (IF bad_run + 1 >= 3 THEN left
                       ELSE Left8(mm, left - 1, bad_run + 1))
                 ELSE Left8(mm, left - 1, 0)
    ELSE left

\* the walk to the right stopping at the fourth consecutive non-printable byte
RECURSIVE Right8_four(_, _, _)
Right8_four(mm, right, bad_run) ==
    IF right < Len(mm)
    THEN LET x == mm[right + 1]
         IN IF x = 0 THEN right
            ELSE IF ~_is_printable_byte(x)
                 THEN (IF bad_run + 1 >= 4 THEN right
                       ELSE Right8_four(mm, right + 1, bad_run + 1))
                 ELSE Right8_four(mm, right + 1, 0)
    ELSE right

RECURSIVE Right8(_, _, _)
Right8(mm, right, bad_run) ==
    IF right < Len(mm)
    THEN LET x == mm[right + 1]  \* mm[right], 0-based
         IN IF x = 0 THEN right
            ELSE IF ~_is_printable_byte(x)
                 THEN (IF bad_run + 1 >= 3 THEN right
                       ELSE Right8(mm, right + 1, bad_run + 1))
                 ELSE Right8(mm, right + 1, 0)
    ELSE right

bounds_utf8(mm, start, end) == <<Left8(mm, start, 0), Right8(mm, end, 0)>>

get_u16(mm, idx, be) ==
    IF idx < 0 \/ idx + 1 >= Len(mm) THEN NoUnit
    ELSE IF be THEN mm[idx + 1] * 256 + mm[idx + 2]
    ELSE mm[idx + 1] + mm[idx + 2] * 256

GoodUnit(code) ==
    \/ (32 <= code /\ code <= 126)
    \/ code \in {9, 10, 13}
    \/ (160 <= code /\ code <= 1114111)

RECURSIVE Left16(_, _, _, _)
Left16(mm, left, bad_run, be) ==
    IF left - 2 >= 0
    THEN LET code == get_u16(mm, left - 2, be)
         IN IF code = NoUnit THEN left
            ELSE IF code = 0 THEN left
            ELSE IF GoodUnit(code) THEN Left16(mm, left - 2, 0, be)
            ELSE IF bad_run + 1 >= 2 THEN left
            ELSE Left16(mm, left - 2, bad_run + 1, be)
    ELSE left

\* the walk to the right stepping over the second consecutive bad unit
\* before it stops
RECURSIVE Right16_late(_, _, _, _)
Right16_late(mm, right, bad_run, be) ==
    IF right + 2 <= Len(mm)
    THEN LET code == get_u16(mm, right, be)
         IN IF code = NoUnit THEN right
            ELSE IF code = 0 THEN right
            ELSE IF GoodUnit(code) THEN Right16_late(mm, right + 2, 0, be)
            ELSE IF bad_run + 1 >= 2 THEN right + 2
            ELSE Right16_late(mm, right + 2, bad_run + 1, be)
    ELSE right

RECURSIVE Right16(_, _, _, _)
Right16(mm, right, bad_run, be) ==
    IF right + 2 <= Len(mm)
    THEN LET code == get_u16(mm, right, be)
         IN IF code = NoUnit THEN right
            ELSE IF code = 0 THEN right
            ELSE IF GoodUnit(code) THEN Right16(mm, right + 2, 0, be)
            ELSE IF bad_run + 1 >= 2 THEN right
            ELSE Right16(mm, right + 2, bad_run + 1, be)
    ELSE right

\* _bounds_utf16 snapping a misaligned end down instead of up
_bounds_utf16_snapdown(mm, start, end, be) ==
    LET left0  == IF start % 2 = 1 THEN start - 1 ELSE start
        right0 == IF end % 2 = 1 THEN end - 1 ELSE end
    IN <<Left16(mm, left0, 0, be), Right16(mm, right0, 0, be)>>

_bounds_utf16(mm, start, end, be) ==
    LET left0  == IF start % 2 = 1 THEN start - 1 ELSE start
        right0 == IF end % 2 = 1 THEN end + 1 ELSE end
    IN <<Left16(mm, left0, 0, be), Right16(mm, right0, 0, be)>>

expand_full_utf8(mm, start, end) ==
    LET b == bounds_utf8(mm, start, end) IN Slice(mm, b[1], b[2])

expand_full_utf16le(mm, start, end) ==
    LET b == _bounds_utf16(mm, start, end, FALSE) IN Slice(mm, b[1], b[2])

expand_full_utf16be(mm, start, end) ==
    LET b == _bounds_utf16(mm, start, end, TRUE) IN Slice(mm, b[1], b[2])

\* the offsets one encoding's scan reports
Offsets(mm, needle, step, ic) ==
    IF ic THEN find_ci(mm, needle, step) ELSE find_all(mm, needle, step)

HitsOf(mm, offs, enc, t) ==
    [k \in 1..Len(offs) |->
        [offset |-> offs[k], enc |-> enc,
         match_bytes |-> Slice(mm, offs[k], offs[k] + Len(t)),
         full_bytes |->
            IF enc = "utf-8" THEN expand_full_utf8(mm, offs[k], offs[k] + Len(t))
            ELSE IF enc = "utf-16le"
                 THEN expand_full_utf16le(mm, offs[k], offs[k] + Len(t))
                 ELSE expand_full_utf16be(mm, offs[k], offs[k] + Len(t)),
         term_bytes |-> t]]

search(mm, t, utf16be, ic) ==
    LET t8    == encode_by_enc(t, "utf-8")
        t16le == encode_by_enc(t, "utf-16le")
        t16be == IF utf16be THEN encode_by_enc(t, "utf-16be") ELSE <<>>
    IN HitsOf(mm, Offsets(mm, t8, 1, ic), "utf-8", t8)
       \o HitsOf(mm, Offsets(mm, t16le, 2, ic), "utf-16le", t16le)
       \o (IF t16be # <<>>
           THEN HitsOf(mm, Offsets(mm, t16be, 2, ic), "utf-16be", t16be)
           ELSE <<>>)

\* -------------------------------------------------------- reconciliation
\* pad_bytes raising ValueError
PadError == <<-2>>

\* pad_bytes filling as many whole units as fit, without the check of the
\* remainder
pad_bytes_floor(enc, pad, nbytes) ==
    IF Len(pad) # 1 THEN PadError
    ELSE LET unit == encode_by_enc(pad, enc)
         IN Repeat(unit, nbytes \div Len(unit))

pad_bytes(enc, pad, nbytes) ==
    IF Len(pad) # 1 THEN PadError
    ELSE LET unit == encode_by_enc(pad, enc)
         IN IF nbytes % Len(unit) # 0 THEN PadError
            ELSE Repeat(unit, nbytes \div Len(unit))

\* adjusted_write_bytes without the check of padnul that the gap is a whole
\* number of null units
adjusted_write_bytes_nocheck(enc, new, old_len, md, pad) ==
    LET nb == encode_by_enc(new, enc)
    IN IF Len(nb) = old_len THEN nb
       ELSE IF md = "padnul" /\ Len(nb) < old_len
       THEN LET unit == IF enc = "utf-8" THEN <<0>> ELSE <<0, 0>>
            IN nb \o Repeat(unit, (old_len - Len(nb)) \div Len(unit))
       ELSE IF md = "padspace" /\ Len(nb) < old_len
       THEN LET p == pad_bytes(enc, pad, old_len - Len(nb))
            IN IF p = PadError THEN None ELSE nb \o p
       ELSE IF md = "truncate" /\ Len(nb) > old_len
       THEN Slice(nb, 0, old_len)
       ELSE None

\* adjusted_write_bytes that looks at the mode first and returns the encoded
\* bytes of equal length in the mode exact only
adjusted_write_bytes_modefirst(enc, new, old_len, md, pad) ==
    LET nb == encode_by_enc(new, enc)
    IN IF md = "padnul" /\ Len(nb) <= old_len
       THEN LET unit == IF enc = "utf-8" THEN <<0>> ELSE <<0, 0>>
            IN IF (old_len - Len(nb)) % Len(unit) # 0 THEN None
               ELSE nb \o Repeat(unit, (old_len - Len(nb)) \div Len(unit))
       ELSE IF md = "padspace" /\ Len(nb) <= old_len
       THEN LET p == pad_bytes(enc, pad, old_len - Len(nb))
            IN IF p = PadError THEN None ELSE nb \o p
       ELSE IF md = "truncate" /\ Len(nb) >= old_len
       THEN Slice(nb, 0, old_len)
       ELSE IF Len(nb) = old_len THEN nb
       ELSE None

\* adjusted_write_bytes whose truncate keeps the last old_len bytes
adjusted_write_bytes_tail(enc, new, old_len, md, pad) ==
    LET nb == encode_by_enc(new, enc)
    IN IF Len(nb) = old_len THEN nb
       ELSE IF md = "padnul" /\ Len(nb) < old_len
       THEN LET unit == IF enc = "utf-8" THEN <<0>> ELSE <<0, 0>>
            IN IF (old_len - Len(nb)) % Len(unit) # 0 THEN None
               ELSE nb \o Repeat(unit, (old_len - Len(nb)) \div Len(unit))
       ELSE IF md = "padspace" /\ Len(nb) < old_len
       THEN LET p == pad_bytes(enc, pad, old_len - Len(nb))
            IN IF p = PadError THEN None ELSE nb \o p
       ELSE IF md = "truncate" /\ Len(nb) > old_len
       THEN Slice(nb, Len(nb) - old_len, Len(nb))
       ELSE None

adjusted_write_bytes(enc, new, old_len, md, pad) ==
    LET nb == encode_by_enc(new, enc)
    IN IF Len(nb) = old_len THEN nb
       ELSE IF md = "padnul" /\ Len(nb) < old_len
       THEN LET unit == IF enc = "utf-8" THEN <<0>> ELSE <<0, 0>>
            IN IF (old_len - Len(nb)) % Len(unit) # 0 THEN None
               ELSE nb \o Repeat(unit, (old_len - Len(nb)) \div Len(unit))
       ELSE IF md = "padspace" /\ Len(nb) < old_len
       THEN LET p == pad_bytes(enc, pad, old_len - Len(nb))
            IN IF p = PadError THEN None ELSE nb \o p
       ELSE IF md = "truncate" /\ Len(nb) > old_len
       THEN Slice(nb, 0, old_len)
       ELSE None

\* ------------------------------------------- specification of the search
vars == <<file, term, include_utf16be, ignore_case, hits, pc, rc, bc, kind, new_str,
          mode, pad_char, indices, cur, eff, preview, view, baks, bak, outcomes,
          written, cmds, tampered, sel, confirm>>

\* the variables of a session, for the specifications that run none
sessVars == <<kind, new_str, mode, pad_char, indices, cur, eff, preview, view,
              baks, bak, outcomes, written, cmds, tampered, sel, confirm>>

NoSession ==
    /\ kind = "none"
    /\ new_str = <<>>
    /\ mode = "exact"
    /\ pad_char = <<32>>
    /\ indices = <<>>
    /\ cur = 0
    /\ eff = None
    /\ preview = <<>>
    /\ view = "none"
    /\ baks = <<>>
    /\ bak = NoBak
    /\ outcomes = <<>>
    /\ written = 0
    /\ cmds = 0
    /\ sel = 0
    /\ confirm = ""
    /\ tampered = FALSE

InitSearch ==
    /\ file \in SeqsOf(ByteVals, 1, MaxScanLen)
    /\ term \in SeqsOf(TermChars, 0, MaxTermLen)
    /\ include_utf16be \in BOOLEAN
    /\ ignore_case \in BOOLEAN
    /\ hits = <<>>
    /\ rc = NoCall
    /\ bc = NoBounds
    /\ NoSession
    /\ pc = "scan"

SearchCall ==
    /\ pc = "scan"
    /\ hits' = search(file, term, include_utf16be, ignore_case)
    /\ pc' = "scanned"
    /\ UNCHANGED <<file, term, include_utf16be, ignore_case, rc, bc>>
    /\ UNCHANGED sessVars

NextSearch == SearchCall

SpecSearch == InitSearch /\ [][NextSearch]_vars

\* ----------------------------------- specification of the reconciliation
InitReconcile ==
    /\ file = <<>>
    /\ term = <<>>
    /\ include_utf16be = FALSE
    /\ ignore_case = FALSE
    /\ hits = <<>>
    /\ rc \in [enc : Encodings, new_str : SeqsOf(NewChars, 0, MaxNewLen),
               old_len : 0..MaxOldLen, mode : Modes,
               pad_char : SeqsOf(PadChars, 0, MaxPadLen), out : {None}]
    /\ bc = NoBounds
    /\ NoSession
    /\ pc = "call"

ReconcileCall ==
    /\ pc = "call"
    /\ rc' = [rc EXCEPT !.out = adjusted_write_bytes(rc.enc, rc.new_str,
                                    rc.old_len, rc.mode, rc.pad_char)]
    /\ pc' = "called"
    /\ UNCHANGED <<file, term, include_utf16be, ignore_case, hits, bc>>
    /\ UNCHANGED sessVars

NextReconcile == ReconcileCall

SpecReconcile == InitReconcile /\ [][NextReconcile]_vars

\* ------------------------------- specification of the context expansion
\* any buffer (a mapped file is not empty) and any span inside it
InitBounds ==
    /\ file \in SeqsOf(ByteVals, 1, MaxScanLen)
    /\ term = <<>>
    /\ include_utf16be = FALSE
    /\ ignore_case = FALSE
    /\ hits = <<>>
    /\ rc = NoCall
    /\ bc \in {b \in [enc : Encodings, start : 0..MaxScanLen, end : 0..MaxScanLen,
                        out : {<<0, 0>>}] :
                  b.start <= b.end /\ b.end <= Len(file)}
    /\ NoSession
    /\ pc = "bounds"

BoundsCall ==
    /\ pc = "bounds"
    /\ bc' = [bc EXCEPT !.out =
                 IF bc.enc = "utf-8" THEN bounds_utf8(file, bc.start, bc.end)
                 ELSE _bounds_utf16(file, bc.start, bc.end, bc.enc = "utf-16be")]
    /\ pc' = "bounded"
    /\ UNCHANGED <<file, term, include_utf16be, ignore_case, hits, rc>>
    /\ UNCHANGED sessVars

NextBounds == BoundsCall

SpecBounds == InitBounds /\ [][NextBounds]_vars

\* -------------------------------------------------------------- sessions
\* hits.sort(key=offset): stable, ascending offset
RECURSIVE InsertHit(_, _)
InsertHit(h, sorted) ==
    IF sorted = <<>> THEN <<h>>
    ELSE IF h.offset < Head(sorted).offset THEN <<h>> \o sorted
    ELSE <<Head(sorted)>> \o InsertHit(h, Tail(sorted))

RECURSIVE SortHits(_)
SortHits(hs) ==
    IF hs = <<>> THEN <<>>
    ELSE InsertHit(hs[Len(hs)], SortHits(SubSeq(hs, 1, Len(hs) - 1)))

\* main: the --limit cut, then the in-place sort of fmt_and_show_hits
ListedHits(hs, limit) ==
    IF limit > 0 /\ Len(hs) > limit
    THEN SortHits(SubSeq(SortHits(hs), 1, limit))
    ELSE SortHits(hs)

\* sorted(indices)
RECURSIVE SortedSeq(_)
SortedSeq(S) ==
    IF S = {} THEN <<>>
    ELSE LET m == CHOOSE x \in S : \A y \in S : x <= y
         IN <<m>> \o SortedSeq(S \ {m})

\* backup names: 0 is <path>.<timestamp>.bak, n >= 1 is <path>.<timestamp>.bak-n
RECURSIVE NextFree(_, _)
NextFree(existing, n) == IF n \notin existing THEN n ELSE NextFree(existing, n + 1)

unique_backup_name(existing) ==
    IF 0 \notin existing THEN 0 ELSE NextFree(existing, 1)

\* the match write_one works on
Hit == hits[indices[cur]]
HitLen == Len(Hit.term_bytes)

BoundsOf(mm, h) ==
    IF h.enc = "utf-8"
    THEN bounds_utf8(mm, h.offset, h.offset + Len(h.term_bytes))
    ELSE _bounds_utf16(mm, h.offset, h.offset + Len(h.term_bytes),
                       h.enc = "utf-16be")

\* a preview whose right part starts at the match instead of after it
build_preview_text_tail(mm, h, written_bytes) ==
    LET b == BoundsOf(mm, h)
    IN Slice(mm, b[1], h.offset) \o written_bytes
       \o Slice(mm, h.offset, b[2])

\* the bytes build_preview_text decodes
build_preview_text(mm, h, written_bytes) ==
    LET b == BoundsOf(mm, h)
    IN Slice(mm, b[1], h.offset) \o written_bytes
       \o Slice(mm, h.offset + Len(h.term_bytes), b[2])

\* a verification that compares the lengths only
verify_bytes_length(mm, off, expected) ==
    Len(Slice(mm, off, off + Len(expected))) = Len(expected)

verify_bytes(mm, off, expected) ==
    Slice(mm, off, off + Len(expected)) = expected

\* a store that inserts the data instead of overwriting the span
StoreSlice_insert(mm, off, old_len, data) ==
    Slice(mm, 0, off) \o data \o Slice(mm, off, Len(mm))

\* mm[off:off+old_len] = data, for data as long as the slice
StoreSlice(mm, off, old_len, data) ==
    Slice(mm, 0, off) \o data \o Slice(mm, off + old_len, Len(mm))

InitSession ==
    /\ file \in SeqsOf(SessBytes, 1, MaxFileLen)
    /\ term \in SeqsOf(SessTermChars, 0, MaxSessTermLen)
    /\ include_utf16be \in BOOLEAN
    /\ ignore_case \in BOOLEAN
    /\ hits = <<>>
    /\ rc = NoCall
    /\ bc = NoBounds
    /\ kind = "none"
    /\ new_str = <<>>
    /\ mode = "exact"
    /\ pad_char = <<32>>
    /\ indices = <<>>
    /\ cur = 0
    /\ eff = None
    /\ preview = <<>>
    /\ view = "none"
    /\ baks = <<>>
    /\ bak = NoBak
    /\ outcomes = <<>>
    /\ written = 0
    /\ cmds = 0
    /\ sel = 0
    /\ confirm = ""
    /\ tampered = FALSE
    /\ pc = "main"

inputVars == <<term, include_utf16be, ignore_case, rc, bc>>

\* search(): the read-only view is mapped
SearchOpen ==
    /\ pc = "main"
    /\ view' = "ro"
    /\ pc' = "search"
    /\ UNCHANGED <<file, hits, kind, new_str, mode, pad_char, indices, cur, eff,
                   preview, baks, bak, outcomes, written, cmds, tampered, sel, confirm>>
    /\ UNCHANGED inputVars

\* search() returns, main cuts to --limit, fmt_and_show_hits sorts
SearchDone ==
    /\ pc = "search"
    /\ \E limit \in 1..MaxLimit :
         hits' = ListedHits(search(file, term, include_utf16be, ignore_case), limit)
    /\ view' = "none"
    /\ pc' = IF hits' = <<>> THEN "exit" ELSE "dispatch"
    /\ UNCHANGED <<file, kind, new_str, mode, pad_char, indices, cur, eff,
                   preview, baks, bak, outcomes, written, cmds, tampered, sel, confirm>>
    /\ UNCHANGED inputVars

AllIndices == [k \in 1..Len(hits) |-> k]

\* --replace without --mode, or --yes without --all
BatchRefused ==
    /\ pc = "dispatch"
    /\ pc' = "exit"
    /\ UNCHANGED <<file, hits, kind, new_str, mode, pad_char, indices, cur, eff,
                   preview, view, baks, bak, outcomes, written, cmds, tampered, sel, confirm>>
    /\ UNCHANGED inputVars

\* --replace --mode with --all (asks "Replace ALL?" unless --yes) or without
\* (asks for the indices), the replacement being one of news
BatchArgsOf(news) ==
    /\ pc = "dispatch"
    /\ \E ns \in news, md \in Modes,
          pd \in {<<c>> : c \in SessPadChars},
          next \in {"confirm_all", "select", "all"} :
         /\ new_str' = ns
         /\ mode' = md
         /\ pad_char' = pd
         /\ IF next = "all"
            THEN indices' = AllIndices /\ pc' = "backup"
            ELSE indices' = indices /\ pc' = next
    /\ kind' = "batch"
    /\ UNCHANGED <<file, hits, cur, eff, preview, view, baks, bak, outcomes,
                   written, cmds, tampered, sel, confirm>>
    /\ UNCHANGED inputVars

BatchArgs == BatchArgsOf(SeqsOf(SessChars, 1, MaxSessNewLen))

\* the answer to "Replace ALL n matches?"
ConfirmAll ==
    /\ pc = "confirm_all"
    /\ \E yes \in BOOLEAN :
         IF yes THEN indices' = AllIndices /\ pc' = "backup"
         ELSE indices' = indices /\ pc' = "exit"
    /\ UNCHANGED <<file, hits, kind, new_str, mode, pad_char, cur, eff, preview,
                   view, baks, bak, outcomes, written, cmds, tampered, sel, confirm>>
    /\ UNCHANGED inputVars

\* the answer to "Select match indices", through parse_selection
Select ==
    /\ pc = "select"
    /\ \E S \in SUBSET (1..Len(hits)) :
         /\ indices' = SortedSeq(S)
         /\ pc' = IF S = {} THEN "exit" ELSE "backup"
    /\ UNCHANGED <<file, hits, kind, new_str, mode, pad_char, cur, eff, preview,
                   view, baks, bak, outcomes, written, cmds, tampered, sel, confirm>>
    /\ UNCHANGED inputVars

\* no --replace: interactive_loop
Interactive ==
    /\ pc = "dispatch"
    /\ kind' = "interactive"
    /\ pc' = "backup"
    /\ UNCHANGED <<file, hits, new_str, mode, pad_char, indices, cur, eff,
                   preview, view, baks, bak, outcomes, written, cmds, tampered, sel, confirm>>
    /\ UNCHANGED inputVars

\* a session that goes on without copying the file
ensure_backup_skipped ==
    /\ pc = "backup"
    /\ IF kind = "batch"
       THEN cur' = 1 /\ written' = 0 /\ outcomes' = <<>> /\ pc' = "reconcile"
       ELSE cur' = cur /\ written' = written /\ outcomes' = outcomes /\ pc' = "loop"
    /\ UNCHANGED <<file, hits, kind, new_str, mode, pad_char, indices, eff,
                   preview, view, cmds, tampered, sel, confirm, baks, bak>>
    /\ UNCHANGED inputVars

\* ensure_backup copies the file; replace_batch then starts its loop
ensure_backup ==
    /\ pc = "backup"
    /\ bak' = unique_backup_name(DOMAIN baks)
    /\ baks' = [n \in DOMAIN baks \cup {bak'} |->
                   IF n = bak' THEN file ELSE baks[n]]
    /\ IF kind = "batch"
       THEN cur' = 1 /\ written' = 0 /\ outcomes' = <<>> /\ pc' = "reconcile"
       ELSE cur' = cur /\ written' = written /\ outcomes' = outcomes /\ pc' = "loop"
    /\ UNCHANGED <<file, hits, kind, new_str, mode, pad_char, indices, eff,
                   preview, view, cmds, tampered, sel, confirm>>
    /\ UNCHANGED inputVars

\* shutil.copy2 raises: the exception ends the program
BackupFails ==
    /\ pc = "backup"
    /\ pc' = "crashed"
    /\ UNCHANGED <<file, hits, kind, new_str, mode, pad_char, indices, cur, eff,
                   preview, view, baks, bak, outcomes, written, cmds, tampered, sel, confirm>>
    /\ UNCHANGED inputVars

\* ---------------------------------------------------------------- write_one
\* a loop that ends at the first match that was not written
Return_abort(status, ok, e) ==
    /\ outcomes' = Append(outcomes, [index |-> indices[cur], status |-> status,
                                     eff |-> e])
    /\ written' = IF ok /\ (kind = "batch" \/ sel = 0) THEN written + 1 ELSE written
    /\ IF cur < Len(indices) /\ ok
       THEN cur' = cur + 1 /\ pc' = "reconcile"
       ELSE cur' = cur /\ pc' = IF kind = "batch" THEN "exit" ELSE "continue"

\* write_one returns: the batch goes on with its next match, or ends
Return(status, ok, e) ==
    /\ outcomes' = Append(outcomes, [index |-> indices[cur], status |-> status,
                                     eff |-> e])
    /\ written' = IF ok /\ (kind = "batch" \/ sel = 0) THEN written + 1 ELSE written
    /\ IF cur < Len(indices)
       THEN cur' = cur + 1 /\ pc' = "reconcile"
       ELSE cur' = cur /\ pc' = IF kind = "batch" THEN "exit" ELSE "continue"

\* eff = adjusted_write_bytes(...); None: "Cannot write", return False
Reconcile ==
    /\ pc = "reconcile"
    /\ LET e == adjusted_write_bytes(Hit.enc, new_str, HitLen, mode, pad_char)
       IN /\ eff' = e
          /\ IF e = None
             THEN Return("rejected", FALSE, e)
             ELSE pc' = "preview" /\ UNCHANGED <<outcomes, written, cur>>
    /\ confirm' = ""
    /\ UNCHANGED <<file, hits, kind, new_str, mode, pad_char, indices, preview,
                   view, baks, bak, cmds, tampered, sel>>
    /\ UNCHANGED inputVars

\* build_preview_text maps the read-only view
PreviewOpen ==
    /\ pc = "preview"
    /\ view' = "ro"
    /\ pc' = "preview_build"
    /\ UNCHANGED <<file, hits, kind, new_str, mode, pad_char, indices, cur, eff,
                   preview, baks, bak, outcomes, written, cmds, tampered, sel, confirm>>
    /\ UNCHANGED inputVars

\* a preview that returns with its view still mapped
PreviewBuild_leak ==
    /\ pc = "preview_build"
    /\ preview' = build_preview_text(file, Hit, eff)
    /\ view' = view
    /\ pc' = "prompt"
    /\ UNCHANGED <<file, hits, kind, new_str, mode, pad_char, indices, cur, eff,
                   baks, bak, outcomes, written, cmds, tampered, sel, confirm>>
    /\ UNCHANGED inputVars

\* build_preview_text returns; write_one prints the review and prompts
PreviewBuild ==
    /\ pc = "preview_build"
    /\ preview' = build_preview_text(file, Hit, eff)
    /\ view' = "none"
    /\ pc' = "prompt"
    /\ UNCHANGED <<file, hits, kind, new_str, mode, pad_char, indices, cur, eff,
                   baks, bak, outcomes, written, cmds, tampered, sel, confirm>>
    /\ UNCHANGED inputVars

\* "Write this change? [y/N]" answered y or yes
PromptYes ==
    /\ pc = "prompt"
    /\ confirm' = "y"
    /\ pc' = "write"
    /\ UNCHANGED <<file, hits, kind, new_str, mode, pad_char, indices, cur, eff,
                   preview, view, baks, bak, outcomes, written, cmds, tampered, sel>>
    /\ UNCHANGED inputVars

\* a declined prompt that goes on to the write
PromptNo_writes ==
    /\ pc = "prompt"
    /\ confirm' = "n"
    /\ pc' = "write"
    /\ UNCHANGED <<file, hits, kind, new_str, mode, pad_char, indices, cur, eff,
                   preview, view, baks, bak, outcomes, written, cmds, tampered, sel>>
    /\ UNCHANGED inputVars

\* any other answer: "Skipped.", return False
PromptNo ==
    /\ pc = "prompt"
    /\ confirm' = "n"
    /\ Return("declined", FALSE, eff)
    /\ UNCHANGED <<file, hits, kind, new_str, mode, pad_char, indices, eff,
                   preview, view, baks, bak, cmds, tampered, sel>>
    /\ UNCHANGED inputVars

\* open(path, "r+b") and mmap: the read-write view
WriteOpen ==
    /\ pc = "write"
    /\ view' = "rw"
    /\ pc' = "store"
    /\ UNCHANGED <<file, hits, kind, new_str, mode, pad_char, indices, cur, eff,
                   preview, baks, bak, outcomes, written, cmds, tampered, sel, confirm>>
    /\ UNCHANGED inputVars

\* mm[off:off+old_len] = eff; mm.flush(); the view is closed.  A slice
\* assignment of another size raises IndexError, which ends the program.
WriteStore ==
    /\ pc = "store"
    /\ view' = "none"
    /\ IF Len(Slice(file, Hit.offset, Hit.offset + HitLen)) = Len(eff)
       THEN /\ file' = StoreSlice(file, Hit.offset, HitLen, eff)
            /\ pc' = "stored"
       ELSE /\ file' = file
            /\ pc' = "crashed"
    /\ UNCHANGED <<hits, kind, new_str, mode, pad_char, indices, cur, eff,
                   preview, baks, bak, outcomes, written, cmds, tampered, sel, confirm>>
    /\ UNCHANGED inputVars

\* verify_bytes maps the read-only view
VerifyOpen ==
    /\ pc = "stored"
    /\ view' = "ro"
    /\ pc' = "verify"
    /\ UNCHANGED <<file, hits, kind, new_str, mode, pad_char, indices, cur, eff,
                   preview, baks, bak, outcomes, written, cmds, tampered, sel, confirm>>
    /\ UNCHANGED inputVars

\* verify_bytes compares and returns; write_one reports and returns ok
VerifyDone ==
    /\ pc = "verify"
    /\ view' = "none"
    /\ LET ok == verify_bytes(file, Hit.offset, eff)
       IN Return(IF ok THEN "verified" ELSE "failed", ok, eff)
    /\ UNCHANGED <<file, hits, kind, new_str, mode, pad_char, indices, eff,
                   preview, baks, bak, cmds, tampered, sel, confirm>>
    /\ UNCHANGED inputVars

\* The file is not locked: between the flush and the re-read another program
\* may write to it.  Modelled once per session and on the span just written,
\* the case verify_bytes is there to detect.
ExternalWrite ==
    /\ pc = "stored"
    /\ ~tampered
    /\ \E k \in Hit.offset + 1 .. Hit.offset + HitLen :
         file' = [file EXCEPT ![k] = IF file[k] = 0 THEN 1 ELSE 0]
    /\ tampered' = TRUE
    /\ UNCHANGED <<hits, kind, new_str, mode, pad_char, indices, cur, eff,
                   preview, view, baks, bak, outcomes, written, cmds, pc, sel, confirm>>
    /\ UNCHANGED inputVars

\* ------------------------------------------------------- interactive_loop
\* q, quit or exit
Quit ==
    /\ pc = "loop"
    /\ pc' = "exit"
    /\ UNCHANGED <<file, hits, kind, new_str, mode, pad_char, indices, cur, eff,
                   preview, view, baks, bak, outcomes, written, cmds, tampered, sel, confirm>>
    /\ UNCHANGED inputVars

\* a loop that calls ensure_backup again at the top of every iteration
Continue_backup ==
    /\ pc = "continue"
    /\ pc' = "backup"
    /\ new_str' = <<>>
    /\ mode' = "exact"
    /\ pad_char' = <<32>>
    /\ indices' = <<>>
    /\ cur' = 0
    /\ eff' = None
    /\ preview' = <<>>
    /\ outcomes' = <<>>
    /\ written' = 0
    /\ sel' = 0
    /\ confirm' = ""
    /\ UNCHANGED <<file, hits, kind, view, baks, bak, cmds, tampered>>
    /\ UNCHANGED inputVars

\* the command is done ("Done. Replacements written" after all): continue.
\* The locals of the iteration and of its write_one calls are gone.
Continue ==
    /\ pc = "continue"
    /\ pc' = "loop"
    /\ new_str' = <<>>
    /\ mode' = "exact"
    /\ pad_char' = <<32>>
    /\ indices' = <<>>
    /\ cur' = 0
    /\ eff' = None
    /\ preview' = <<>>
    /\ outcomes' = <<>>
    /\ written' = 0
    /\ sel' = 0
    /\ confirm' = ""
    /\ UNCHANGED <<file, hits, kind, view, baks, bak, cmds, tampered>>
    /\ UNCHANGED inputVars

\* all: a non-empty new string, a valid mode, the pad character; write_one
\* for every hit.  (An empty string or an invalid mode changes nothing.)
CmdAll ==
    /\ pc = "loop"
    /\ cmds < MaxCmds
    /\ \E ns \in SeqsOf(SessChars, 1, MaxSessNewLen), md \in Modes,
          pd \in {<<c>> : c \in SessPadChars} :
         /\ new_str' = ns
         /\ mode' = md
         /\ pad_char' = IF md = "padspace" THEN pd ELSE <<32>>
    /\ sel' = 0
    /\ indices' = AllIndices
    /\ cur' = 1
    /\ written' = 0
    /\ outcomes' = <<>>
    /\ cmds' = cmds + 1
    /\ pc' = "reconcile"
    /\ UNCHANGED <<file, hits, kind, eff, preview, view, baks, bak, tampered,
                   confirm>>
    /\ UNCHANGED inputVars

\* an index in range and a non-empty new string; the mode follows from the
\* lengths and the answer ch.  (Any other input changes nothing.)
CmdIndex ==
    /\ pc = "loop"
    /\ cmds < MaxCmds
    /\ \E i \in 1..Len(hits), ns \in SeqsOf(SessChars, 1, MaxSessNewLen),
          ch \in {"n", "s", "t"}, pd \in {<<c>> : c \in SessPadChars} :
         LET in_len  == Len(encode_by_enc(ns, hits[i].enc))
             old_len == Len(hits[i].term_bytes)
         IN /\ \/ in_len = old_len /\ mode' = "exact" /\ pad_char' = <<32>>
               \/ in_len < old_len /\ ch = "n" /\ mode' = "padnul"
                                   /\ pad_char' = <<32>>
               \/ in_len < old_len /\ ch = "s" /\ mode' = "padspace"
                                   /\ pad_char' = pd
               \/ in_len > old_len /\ ch = "t" /\ mode' = "truncate"
                                   /\ pad_char' = <<32>>
            /\ new_str' = ns
            /\ sel' = i
            /\ indices' = <<i>>
    /\ cur' = 1
    /\ outcomes' = <<>>
    /\ cmds' = cmds + 1
    /\ pc' = "reconcile"
    /\ UNCHANGED <<file, hits, kind, eff, preview, view, baks, bak, written,
                   tampered, confirm>>
    /\ UNCHANGED inputVars

Next ==
    \/ SearchOpen \/ SearchDone
    \/ BatchRefused \/ BatchArgs \/ ConfirmAll \/ Select \/ Interactive
    \/ ensure_backup \/ BackupFails
    \/ Reconcile \/ PreviewOpen \/ PreviewBuild \/ PromptYes \/ PromptNo
    \/ WriteOpen \/ WriteStore \/ VerifyOpen \/ VerifyDone \/ ExternalWrite
    \/ Quit \/ CmdAll \/ CmdIndex \/ Continue

Spec == InitSession /\ [][Next]_vars

\* ------------------------------------- specification of the backup
\* The backups of earlier sessions of the same second exist under some of
\* the names; the session is about to call ensure_backup.
InitBackup ==
    /\ file \in SeqsOf(SessBytes, 1, MaxFileLen)
    /\ term = <<>>
    /\ include_utf16be = FALSE
    /\ ignore_case = FALSE
    /\ hits = <<>>
    /\ rc = NoCall
    /\ bc = NoBounds
    /\ kind = "none"
    /\ new_str = <<>>
    /\ mode = "exact"
    /\ pad_char = <<32>>
    /\ indices = <<>>
    /\ cur = 0
    /\ eff = None
    /\ preview = <<>>
    /\ view = "none"
    /\ baks \in UNION {[S -> SeqsOf(SessBytes, 1, MaxBakLen)] :
                         S \in SUBSET (0..(MaxBakNames - 1))}
    /\ bak = NoBak
    /\ outcomes = <<>>
    /\ written = 0
    /\ cmds = 0
    /\ sel = 0
    /\ confirm = ""
    /\ tampered = FALSE
    /\ pc = "name"

backupFrame == <<file, term, include_utf16be, ignore_case, hits, rc, bc, kind,
                 new_str, mode, pad_char, indices, cur, eff, preview, view,
                 outcomes, written, cmds, sel, confirm>>

\* ensure_backup: bak = unique_backup_name(path)
BackupName ==
    /\ pc = "name"
    /\ bak' = unique_backup_name(DOMAIN baks)
    /\ pc' = "copy"
    /\ UNCHANGED <<baks, tampered>>
    /\ UNCHANGED backupFrame

\* ensure_backup: shutil.copy2(path, bak), which creates or overwrites bak
BackupCopy ==
    /\ pc = "copy"
    /\ baks' = [n \in DOMAIN baks \cup {bak} |->
                   IF n = bak THEN file ELSE baks[n]]
    /\ pc' = "copied"
    /\ UNCHANGED <<bak, tampered>>
    /\ UNCHANGED backupFrame

\* Another session of the program on the same file calls ensure_backup in
\* the same second, before this session's call or between its two
\* statements: nothing orders the two processes.  Its copy holds the file
\* as that session read it.
OtherSessionBackup ==
    /\ pc \in {"name", "copy"}
    /\ ~tampered
    /\ unique_backup_name(DOMAIN baks) <= MaxBakNames
    /\ \E c \in SeqsOf(SessBytes, 1, MaxBakLen) :
         LET n == unique_backup_name(DOMAIN baks)
         IN baks' = [m \in DOMAIN baks \cup {n} |-> IF m = n THEN c ELSE baks[m]]
    /\ tampered' = TRUE
    /\ UNCHANGED <<bak, pc>>
    /\ UNCHANGED backupFrame

NextBackup == BackupName \/ BackupCopy \/ OtherSessionBackup

SpecBackup == InitBackup /\ [][NextBackup]_vars

\* ------------------------------------- batch sessions, wider alphabet
InitWide ==
    /\ file \in SeqsOf(WideBytes, 1, MaxWideFileLen)
    /\ term \in SeqsOf(WideTermChars, 1, MaxWideTermLen)
    /\ include_utf16be \in BOOLEAN
    /\ ignore_case \in BOOLEAN
    /\ hits = <<>>
    /\ rc = NoCall
    /\ bc = NoBounds
    /\ NoSession
    /\ pc = "main"

BatchArgsWide == BatchArgsOf(SeqsOf(WideChars, 1, MaxWideNewLen))

NextWide ==
    \/ SearchOpen \/ SearchDone
    \/ BatchArgsWide \/ ConfirmAll \/ Select
    \/ ensure_backup
    \/ Reconcile \/ PreviewOpen \/ PreviewBuild \/ PromptYes \/ PromptNo
    \/ WriteOpen \/ WriteStore \/ VerifyOpen \/ VerifyDone

SpecWide == InitWide /\ [][NextWide]_vars

\* ------------------------------------------------------------------ claims
IsEven(n) == n % 2 = 0

\* the offsets the scan of one encoding reported
Reported(enc) == {hits[k].offset : k \in {j \in 1..Len(hits) : hits[j].enc = enc}}

StepOf(enc) == IF enc = "utf-8" THEN 1 ELSE 2

Searched == {"utf-8", "utf-16le"} \cup (IF include_utf16be THEN {"utf-16be"} ELSE {})

LastOutcome == outcomes[Len(outcomes)]

\* C1: adjusted_write_bytes returns a rejection or a byte sequence of exactly
\* old_len bytes, for every encoding, replacement, mode, pad and old_len.
C1_ExactLengthOrRejection ==
    pc = "called" => (rc.out = None \/ Len(rc.out) = rc.old_len)

\* a replacement of another length than the span was padded or cut to it
C1_Witness ==
    /\ pc = "called"
    /\ rc.out # None
    /\ Len(encode_by_enc(rc.new_str, rc.enc)) # rc.old_len
    /\ rc.old_len > 0

\* C2: no step of a session changes the length of the file, and a step that
\* changes a byte is the store of write_one (or the other program's write
\* before the verification) and changes bytes of [offset, offset+O) only.
C2_WriteFrame ==
    [][/\ Len(file') = Len(file)
       /\ \A k \in 1..Len(file) :
            file'[k] # file[k] =>
               /\ pc \in {"store", "stored"}
               /\ Hit.offset < k
               /\ k <= Hit.offset + HitLen]_vars

\* a verified write changed the file inside a longer file
C2_Witness ==
    /\ outcomes # <<>>
    /\ LastOutcome.status = "verified"
    /\ bak # NoBak
    /\ file # baks[bak]
    /\ Len(file) > Len(LastOutcome.eff)

\* C3: the file changes only when this session has made its backup, the
\* backup being a copy of the whole file; after a failed backup nothing
\* is written.
C3_BackupBeforeWrite ==
    [][/\ (file' # file \/ view' = "rw") =>
             /\ bak # NoBak
             /\ bak \in DOMAIN baks
             /\ Len(baks[bak]) = Len(file)
       /\ pc = "crashed" => file' = file]_vars

\* the store is about to happen and the backup holds the file as it is
C3_Witness ==
    /\ pc = "store"
    /\ bak # NoBak
    /\ baks[bak] = file
    /\ eff # Slice(file, Hit.offset, Hit.offset + HitLen)

\* C4: the file is opened for writing and changed only with reconciled bytes
\* and the answer yes; up to the answer write_one changes no byte and does
\* not open the file for writing, so a rejection or a refusal is a no-op.
C4_WriteOnlyAfterYes ==
    [][/\ (file' # file \/ view' = "rw") => (eff # None /\ confirm = "y")
       /\ pc \in {"reconcile", "preview", "preview_build", "prompt"} =>
             (file' = file /\ view' # "rw")]_vars

\* one match of a batch was declined after another was written
C4_Witness ==
    /\ Len(outcomes) >= 2
    /\ LastOutcome.status = "declined"
    /\ outcomes[1].status = "verified"

\* C5: every UTF-16 match record has an even offset and an even end.
C5_Utf16Aligned ==
    pc = "scanned" =>
        \A k \in 1..Len(hits) :
            hits[k].enc # "utf-8" =>
                /\ IsEven(hits[k].offset)
                /\ IsEven(hits[k].offset + Len(hits[k].match_bytes))

\* C6: every aligned offset at which the encoded term occurs is reported.
C6_EveryAlignedOccurrence ==
    (pc = "scanned" /\ term # <<>>) =>
        \A enc \in Searched :
            LET needle == encode_by_enc(term, enc)
            IN \A i \in 0..Len(file) :
                  (/\ i % StepOf(enc) = 0
                   /\ i + Len(needle) <= Len(file)
                   /\ Slice(file, i, i + Len(needle)) = needle)
                  => i \in Reported(enc)

\* C7: the empty search term has no match.
C7_EmptyTermNoMatch ==
    (pc = "scanned" /\ term = <<>>) => hits = <<>>

\* C8: the context of a match record spans the match, and holds the matched
\* bytes at the relative position offset - left.
C8_ContextHoldsMatch ==
    pc = "scanned" =>
        \A k \in 1..Len(hits) :
            LET h == hits[k]
                b == BoundsOf(file, h)
                n == Len(h.match_bytes)
            IN /\ b[1] <= h.offset
               /\ h.offset + n <= b[2]
               /\ Slice(h.full_bytes, h.offset - b[1], h.offset - b[1] + n)
                     = h.match_bytes

\* a misaligned UTF-16 match at the end of the file, inside a wider context
C8_Witness ==
    /\ pc = "scanned"
    /\ \E k \in 1..Len(hits) :
          /\ hits[k].enc = "utf-16le"
          /\ ~IsEven(hits[k].offset)
          /\ hits[k].offset + Len(hits[k].match_bytes) = Len(file)
          /\ Len(hits[k].full_bytes) > Len(hits[k].match_bytes)

\* C9: when a batch ends, every match reported verified holds its intended
\* bytes (no other program having written to the file).
C9_VerifiedStillHolds ==
    (pc \in {"exit", "continue"} /\ ~tampered) =>
        \A i \in 1..Len(outcomes) :
            outcomes[i].status = "verified" =>
                LET h == hits[outcomes[i].index]
                IN Slice(file, h.offset, h.offset + Len(h.term_bytes))
                      = outcomes[i].eff

\* C10: the store is followed by the re-read through the read-only view, and
\* write_one reports verified exactly when the bytes of [offset, offset+O)
\* are the reconciled bytes; the re-read changes nothing in the file.
C10_VerifyReportsTheBytes ==
    [][/\ pc = "stored" => pc' \in {"stored", "verify"}
       /\ pc = "verify" =>
             /\ view = "ro"
             /\ file' = file
             /\ Len(outcomes') = Len(outcomes) + 1
             /\ outcomes'[Len(outcomes')].status =
                   IF Slice(file, Hit.offset, Hit.offset + HitLen) = eff
                   THEN "verified" ELSE "failed"]_vars

\* a verification failed and the file was left as found
C10_Witness ==
    /\ outcomes # <<>>
    /\ LastOutcome.status = "failed"
    /\ Slice(file, hits[LastOutcome.index].offset,
             hits[LastOutcome.index].offset + Len(LastOutcome.eff))
          # LastOutcome.eff

\* the positions of a session after its call of ensure_backup
AfterBackup == {"loop", "continue", "reconcile", "preview", "preview_build",
                "prompt", "write", "store", "stored", "verify"}

\* C11: a session makes exactly one backup: none before ensure_backup at the
\* start of interactive_loop or replace_batch, and one, the session's own,
\* from then on, whatever the number of matches and of commands.
C11_OneBackupPerSession ==
    /\ Cardinality(DOMAIN baks) <= 1
    /\ (pc \in AfterBackup \/ outcomes # <<>>) =>
          (bak # NoBak /\ DOMAIN baks = {bak})

\* the second 'all' command of an interactive session has written two matches
C11_Witness ==
    /\ kind = "interactive"
    /\ cmds = 2
    /\ sel = 0
    /\ Len(outcomes) >= 2
    /\ \A i \in 1..Len(outcomes) : outcomes[i].status = "verified"
    /\ Cardinality(DOMAIN baks) = 1

\* the arguments and the result of the call of adjusted_write_bytes
RcBytes == encode_by_enc(rc.new_str, rc.enc)
RcGap == rc.old_len - Len(RcBytes)
PadModes == {"padnul", "padspace"}

\* the unit a pad mode repeats: the null unit or the encoded pad character
PadUnit ==
    IF rc.mode = "padnul"
    THEN (IF rc.enc = "utf-8" THEN <<0>> ELSE <<0, 0>>)
    ELSE encode_by_enc(rc.pad_char, rc.enc)

\* C12 as stated: in a pad mode (with one pad character) the reconciliation
\* succeeds exactly when the gap O-L is a nonzero multiple of the unit size,
\* and rejects in every other case; the result is the encoded replacement
\* followed by the repeated unit.
C12_PadIffNonzeroMultiple ==
    (pc = "called" /\ rc.mode \in PadModes /\ Len(rc.pad_char) = 1) =>
        /\ rc.out # None <=> (RcGap > 0 /\ RcGap % Len(PadUnit) = 0)
        /\ rc.out # None =>
              rc.out = RcBytes \o Repeat(PadUnit, RcGap \div Len(PadUnit))

\* C12 amended: with L = O a pad mode returns the encoded replacement; with
\* L # O it succeeds exactly when the gap is a positive multiple of the unit
\* size (the pad being one character), with the encoded replacement followed
\* by the repeated unit, and rejects otherwise.
C12_PadIffPositiveMultiple ==
    (pc = "called" /\ rc.mode \in PadModes) =>
        /\ RcGap = 0 => rc.out = RcBytes
        /\ RcGap # 0 =>
              /\ rc.out # None <=>
                    /\ RcGap > 0
                    /\ rc.mode = "padspace" => Len(rc.pad_char) = 1
                    /\ RcGap % Len(PadUnit) = 0
              /\ rc.out # None =>
                    rc.out = RcBytes \o Repeat(PadUnit, RcGap \div Len(PadUnit))

\* a gap of four bytes was filled with one pad character of four bytes
C12_Witness ==
    /\ pc = "called"
    /\ rc.mode = "padspace"
    /\ rc.out # None
    /\ RcGap = 4
    /\ Len(PadUnit) = 4
    /\ RcBytes # <<>>

\* C13: a replacement whose encoding is as long as the match is returned
\* unchanged, in every mode and with every pad.
C13_EqualLengthUnchanged ==
    (pc = "called" /\ Len(RcBytes) = rc.old_len) => rc.out = RcBytes

\* an equal-length replacement went through padspace with no pad character
C13_Witness ==
    /\ pc = "called"
    /\ rc.old_len > 0
    /\ Len(RcBytes) = rc.old_len
    /\ rc.mode = "padspace"
    /\ rc.pad_char = <<>>
    /\ rc.out = RcBytes

\* C14: with L # O the reconciliation succeeds only in a pad mode with L < O
\* or in truncate with L > O; truncate with L > O returns the first O bytes
\* of the encoded replacement.
C14_OtherCombinationsRejected ==
    (pc = "called" /\ Len(RcBytes) # rc.old_len) =>
        /\ rc.out # None =>
              \/ rc.mode \in PadModes /\ Len(RcBytes) < rc.old_len
              \/ rc.mode = "truncate" /\ Len(RcBytes) > rc.old_len
        /\ (rc.mode = "truncate" /\ Len(RcBytes) > rc.old_len) =>
              rc.out = SubSeq(RcBytes, 1, rc.old_len)

\* truncate cut a replacement inside a character of several bytes
C14_Witness ==
    /\ pc = "called"
    /\ rc.mode = "truncate"
    /\ rc.old_len = 1
    /\ rc.enc = "utf-8"
    /\ rc.new_str = <<233>>
    /\ rc.out = <<195>>

\* write_one has just returned: no byte was written since
JustReturned == outcomes # <<>> /\ pc \in {"reconcile", "exit", "continue"}

\* C15: after a written and verified apply, in any mode, the search for the
\* replacement text with the same settings has a match at the same offset
\* whose length is the number of bytes written.
C15_RoundTrip ==
    (JustReturned /\ LastOutcome.status = "verified") =>
        LET again == search(file, new_str, include_utf16be, ignore_case)
        IN \E k \in 1..Len(again) :
              /\ again[k].offset = hits[LastOutcome.index].offset
              /\ Len(again[k].match_bytes) = Len(LastOutcome.eff)

SortedByOffset(hs) == \A k \in 1..Len(hs) - 1 : hs[k].offset <= hs[k + 1].offset

\* C16: the list of records is in ascending offset order and does not change
\* once listed; a batch attempts its selected indices in ascending order,
\* each once, and when it ends every selected match was attempted, whatever
\* the outcomes of the earlier ones.
C16_BatchOrder ==
    [][/\ pc \notin {"main", "search"} => hits' = hits
       /\ SortedByOffset(hits')
       /\ \A i \in 1..Len(indices') - 1 : indices'[i] < indices'[i + 1]
       /\ Len(outcomes') <= Len(indices')
       /\ \A i \in 1..Len(outcomes') : outcomes'[i].index = indices'[i]
       /\ (pc' \in {"exit", "continue"} /\ bak' # NoBak) =>
             Len(outcomes') = Len(indices')]_vars

\* a batch went on to its second match after the first failed to verify
C16_Witness ==
    /\ pc = "exit"
    /\ kind = "batch"
    /\ Len(outcomes) = 2
    /\ outcomes[1].status = "failed"
    /\ outcomes[2].status = "verified"
    /\ hits[1].offset < hits[2].offset

\* the bytes at offsets lo .. hi-1 of the file hold n consecutive
\* non-printable bytes
BadRun8(lo, hi, n) ==
    \E i \in lo..(hi - n) :
        \A j \in 1..n : ~_is_printable_byte(file[i + j])

\* why the walks of bounds_utf8 stopped at left and at right
Stopped8(left, right) ==
    /\ \/ left = 0
       \/ file[left] = 0
       \/ left + 2 <= bc.start /\ BadRun8(left - 1, left + 2, 3)
    /\ \/ right = Len(file)
       \/ file[right + 1] = 0
       \/ bc.end <= right - 2 /\ BadRun8(right - 2, right + 1, 3)

\* C17 as stated: the context [left, right) of a UTF-8 expansion of any span
\* holds no run of more than 2 non-printable bytes and no NUL outside the
\* span, each side having stopped at a NUL, at the third consecutive
\* non-printable byte or at the end of the buffer.
C17_Utf8ContextRuns ==
    (pc = "bounded" /\ bc.enc = "utf-8") =>
        LET left == bc.out[1]
            right == bc.out[2]
        IN /\ left <= bc.start /\ bc.end <= right
           /\ ~BadRun8(left, right, 3)
           /\ \A i \in (left..(bc.start - 1)) \cup (bc.end..(right - 1)) :
                 file[i + 1] # 0
           /\ Stopped8(left, right)

\* C17 amended: the bytes the expansion adds on each side of the span hold
\* no run of more than 2 non-printable bytes and no NUL, each side having
\* stopped at a NUL, at the third consecutive non-printable byte or at the
\* end of the buffer.
C17_Utf8SideRuns ==
    (pc = "bounded" /\ bc.enc = "utf-8") =>
        LET left == bc.out[1]
            right == bc.out[2]
        IN /\ left <= bc.start /\ bc.end <= right
           /\ ~BadRun8(left, bc.start, 3)
           /\ ~BadRun8(bc.end, right, 3)
           /\ \A i \in (left..(bc.start - 1)) \cup (bc.end..(right - 1)) :
                 file[i + 1] # 0
           /\ Stopped8(left, right)

\* the walk to the right took two non-printable bytes and stopped at the third
C17_Witness ==
    /\ pc = "bounded"
    /\ bc.enc = "utf-8"
    /\ bc.start < bc.end
    /\ bc.out[2] = bc.end + 2
    /\ bc.out[2] < Len(file)
    /\ file[bc.out[2] + 1] # 0
    /\ BadRun8(bc.end, bc.out[2], 2)

\* the code unit at offset i of the file, in the encoding of the call
UnitAt(i) == get_u16(file, i, bc.enc = "utf-16be")

\* the span of the call, snapped to even offsets
SnapStart == IF bc.start % 2 = 1 THEN bc.start - 1 ELSE bc.start
SnapEnd == IF bc.end % 2 = 1 THEN bc.end + 1 ELSE bc.end

\* the units at lo, lo+2, .. below hi hold n consecutive bad units
BadRun16(lo, hi, n) ==
    \E i \in lo..(hi - 2 * n) :
        /\ (i - lo) % 2 = 0
        /\ \A j \in 0..(n - 1) :
              UnitAt(i + 2 * j) # NoUnit /\ ~GoodUnit(UnitAt(i + 2 * j))

\* why the walks of _bounds_utf16 stopped at left and at right
Stopped16(left, right) ==
    /\ \/ left - 2 < 0
       \/ UnitAt(left - 2) = 0
       \/ left + 2 <= SnapStart /\ BadRun16(left - 2, left + 2, 2)
    /\ \/ right + 2 > Len(file)
       \/ UnitAt(right) = 0
       \/ SnapEnd <= right - 2 /\ BadRun16(right - 2, right + 2, 2)

\* C18 as stated: the context [left, right) of a UTF-16 expansion holds no
\* run of more than 1 bad code unit, each side having stopped at a 0x0000
\* unit, at the second consecutive bad unit or at the end of the buffer.
C18_Utf16ContextRuns ==
    (pc = "bounded" /\ bc.enc # "utf-8") =>
        LET left == bc.out[1]
            right == bc.out[2]
        IN /\ ~BadRun16(left, right, 2)
           /\ Stopped16(left, right)

\* C18 amended: the units the expansion adds on each side of the snapped
\* span hold no run of more than 1 bad code unit and no 0x0000 unit, each
\* side having stopped at a 0x0000 unit, at the second consecutive bad unit
\* or at the end of the buffer.
C18_Utf16SideRuns ==
    (pc = "bounded" /\ bc.enc # "utf-8") =>
        LET left == bc.out[1]
            right == bc.out[2]
        IN /\ left <= SnapStart /\ SnapEnd <= right
           /\ ~BadRun16(left, SnapStart, 2)
           /\ ~BadRun16(SnapEnd, right, 2)
           /\ \A i \in (left..(SnapStart - 2)) \cup (SnapEnd..(right - 2)) :
                 (i - left) % 2 = 0 => UnitAt(i) # 0
           /\ Stopped16(left, right)

\* the walk to the left took one bad unit and stopped at the second
C18_Witness ==
    /\ pc = "bounded"
    /\ bc.enc = "utf-16le"
    /\ bc.start = 4
    /\ bc.out[1] = 2
    /\ BadRun16(0, 4, 2)
    /\ UnitAt(0) # 0

\* C19: for any span of any buffer, aligned or not, _bounds_utf16 returns
\* even boundaries inside the buffer, left at or below start and right at or
\* above end.
C19_Utf16BoundsInside ==
    (pc = "bounded" /\ bc.enc # "utf-8") =>
        LET left == bc.out[1]
            right == bc.out[2]
        IN /\ IsEven(left) /\ IsEven(right)
           /\ 0 <= left /\ left <= bc.start
           /\ bc.end <= right /\ right <= Len(file)

\* the file as the search saw it: the session's backup
Original == baks[bak]

\* the original context of record h with the matched span replaced by e
ContextWith(h, e) ==
    LET rel == h.offset - BoundsOf(Original, h)[1]
    IN Slice(h.full_bytes, 0, rel) \o e
       \o Slice(h.full_bytes, rel + Len(h.term_bytes), Len(h.full_bytes))

\* no byte outside the span of record h differs from the original file
SameOutside(h) ==
    \A k \in 1..Len(file) :
        (k <= h.offset \/ k > h.offset + Len(h.term_bytes)) => file[k] = Original[k]

\* C20 as stated: the preview at the prompt is the record's original context
\* with the matched span replaced by the reconciled bytes, also after
\* earlier writes of the session.
C20_PreviewOfOriginalContext ==
    pc = "prompt" => preview = ContextWith(Hit, eff)

\* C20 amended: the preview at the prompt is the context of the match
\* expanded in the file as it is now, with the matched span replaced by the
\* reconciled bytes; it is the record's original context with the span
\* replaced when no byte outside the span has changed since the search.
C20_PreviewOfCurrentContext ==
    pc = "prompt" =>
        LET b == BoundsOf(file, Hit)
        IN /\ preview = Slice(file, b[1], Hit.offset) \o eff
                           \o Slice(file, Hit.offset + HitLen, b[2])
           /\ SameOutside(Hit) => preview = ContextWith(Hit, eff)

\* the second match of a batch is previewed after the first was written
\* inside its context
C20_Witness ==
    /\ pc = "prompt"
    /\ cur = 2
    /\ outcomes[1].status = "verified"
    /\ ~SameOutside(Hit)
    /\ preview # ContextWith(Hit, eff)

\* the positions at which the program waits for the user's input
Prompts == {"confirm_all", "select", "prompt", "loop"}

\* C21: no view of the file is mapped while the program waits at a prompt;
\* a view is mapped only when none is, so the read-only and the read-write
\* view are never open together; the read-only view is open only inside
\* search, preview construction and verification, the read-write view only
\* inside the overwrite.
C21_NoViewAcrossPrompt ==
    [][/\ pc' \in Prompts => view' = "none"
       /\ (view' # view /\ view' # "none") => view = "none"
       /\ view' = "ro" => pc' \in {"search", "preview_build", "verify"}
       /\ view' = "rw" => pc' = "store"]_vars

\* the prompt of the second match, after the first was previewed, written
\* and verified through its views
C21_Witness ==
    /\ pc = "prompt"
    /\ view = "none"
    /\ cur = 2
    /\ Len(outcomes) = 1
    /\ outcomes[1].status = "verified"

\* C22: unique_backup_name returns an unused name, <path>.<timestamp>.bak if
\* that is unused and else the suffix -n of the smallest n >= 1 unused; and
\* the copy of ensure_backup never overwrites a backup file that exists,
\* also one another session made in the same second.
C22_BackupNeverOverwrites ==
    [][/\ (pc = "name" /\ pc' = "copy") =>
             /\ bak' \notin DOMAIN baks
             /\ 0 \notin DOMAIN baks => bak' = 0
             /\ 0 \in DOMAIN baks =>
                   (bak' >= 1 /\ \A m \in 1..(bak' - 1) : m \in DOMAIN baks)
       /\ (pc = "copy" /\ pc' = "copied") => bak \notin DOMAIN baks
       /\ \A n \in DOMAIN baks : n \in DOMAIN baks' /\ baks'[n] = baks[n]]_vars

\* the offsets a search of the same file for the same term reports for one
\* encoding, with --ignore-case
ReportedIgnoringCase(enc) ==
    LET ci == search(file, term, include_utf16be, TRUE)
    IN {ci[k].offset : k \in {j \in 1..Len(ci) : ci[j].enc = enc}}

\* C23: every offset the case-sensitive search reports for an encoding is
\* reported by the case-insensitive search for the same term.
C23_IgnoreCaseLosesNoMatch ==
    (pc = "scanned" /\ term # <<>> /\ ~ignore_case) =>
        \A enc \in Searched : Reported(enc) \subseteq ReportedIgnoringCase(enc)

====
